---- MODULE Spec2Model ----
(***************************************************************************)
(* A model of the AQI analysis scripts: aqi_monitor.py (fetch, normalise,  *)
(* threshold filter, summary, save), aqi_map_visualization.py (band        *)
(* classifier, band counts and statistics) and distance_analysis.py.       *)
(*                                                                         *)
(* Python values are encoded as follows.                                   *)
(*   - a nullable number is a record [tag, val, den]: None, NaN (what      *)
(*     pandas puts in a numeric column for an empty cell), the integer     *)
(*     Num(v), or the float Ratio(a, b), kept exact as a reduced fraction; *)
(*   - a value that is None or a list is a record [is_none, items];        *)
(*   - a JSON value of a raw API record is a record [kind, chars, n];      *)
(*   - a string that is parsed is the sequence of its characters;          *)
(*   - an exception raised by an expression is a value tagged with its    *)
(*     name; a function that raises returns Raised.                        *)
(***************************************************************************)
EXTENDS Integers, Sequences, FiniteSets, TLC

VARIABLES
    pc,                 \* position of the running script
    aqi_value,          \* classifier: the argument of get_aqi_color / get_aqi_category
    color,              \* classifier: what get_aqi_color returned
    category,           \* classifier: what get_aqi_category returned
    response,           \* monitor: how the HTTP request of fetch_aqi_data ended
    called,             \* the methods the running script has called
    raw_data,           \* monitor: what fetch_aqi_data returned
    processed_data,     \* monitor: the station readings of process_aqi_data
    threshold,          \* monitor: the threshold of identify_high_aqi_stations
    high_aqi_stations,  \* monitor: what identify_high_aqi_stations returned
    summary,            \* monitor: what generate_summary returned
    files,              \* the output files written so far
    df,                 \* visualizer: the DataFrame loaded from the CSV export
    map_summary,        \* visualizer: what create_statistics_summary returned
    markers,            \* visualizer: the markers create_aqi_map put on the map
    endpoints,          \* analyzer: the arguments of haversine_distance
    distance,           \* analyzer: what haversine_distance returned
    high_aqi_df,        \* analyzer: what load_high_aqi_data returned
    df_with_distance,   \* analyzer: what calculate_distances returned
    analysis,           \* analyzer: what analyze_distance_distribution returned
    api_key,            \* environment: the value of MOENV_API_KEY
    now                 \* environment: the wall clock, in seconds

classifierVars == <<aqi_value, color, category>>
monitorVars ==
    <<response, called, raw_data, processed_data, threshold,
      high_aqi_stations, summary, files>>
visualizerVars == <<df, map_summary, markers>>
analyzerVars == <<endpoints, distance, high_aqi_df, df_with_distance, analysis>>
environmentVars == <<api_key, now>>
vars ==
    <<pc, classifierVars, monitorVars, visualizerVars, analyzerVars,
      environmentVars>>

None == [tag |-> "none", val |-> 0, den |-> 1]
NaN == [tag |-> "nan", val |-> 0, den |-> 1]
Num(v) == [tag |-> "num", val |-> v, den |-> 1]

Abs(x) == IF x < 0 THEN 0 - x ELSE x

RECURSIVE Gcd(_, _)
Gcd(a, b) == IF b = 0 THEN a ELSE Gcd(b, a % b)

\* the number a / b, b > 0, in lowest terms
Ratio(a, b) ==
    LET g == Gcd(Abs(a), b)
    IN  [tag |-> "num", val |-> a \div g, den |-> b \div g]

\* x <= y and x < y on two numbers
NumLE(x, y) == x.val * y.den <= y.val * x.den
NumLT(x, y) == x.val * y.den < y.val * x.den
NoList == [is_none |-> TRUE, items |-> <<>>]
ListOf(items) == [is_none |-> FALSE, items |-> items]
Unset == "unset"

\* Python's 'not x' on None or a list
Not(x) == x.is_none \/ x.items = <<>>

\* the variables of a component that a script does not use
IdleClassifier == aqi_value = None /\ color = Unset /\ category = Unset
IdleMonitor ==
    /\ response = Unset /\ called = {}
    /\ raw_data = Unset /\ processed_data = Unset /\ threshold = 0
    /\ high_aqi_stations = Unset /\ summary = Unset /\ files = {}
IdleVisualizer == df = Unset /\ map_summary = Unset /\ markers = Unset
IdleAnalyzer ==
    /\ endpoints = Unset /\ distance = Unset
    /\ high_aqi_df = Unset /\ df_with_distance = Unset /\ analysis = Unset
IdleEnvironment == api_key = Unset /\ now = 0

(***************************************************************************)
(* Bounds of the model.                                                    *)
(***************************************************************************)
\* how far below 0 and above 500 the AQI values given to the classifier go
MaxOut == 3
\* the longest list of station readings given to the filter and the summaries
MaxReadings == 3
\* the longest list of raw records given to process_aqi_data
MaxRecords == 3

(***************************************************************************)
(* aqi_map_visualization.py: the band tables of AQIMapVisualizer.__init__. *)
(* A dict is a sequence of its keys in insertion order plus a function.    *)
(***************************************************************************)
Categories ==
    << "good", "moderate", "unhealthy_sensitive", "unhealthy",
       "very_unhealthy", "hazardous" >>

aqi_colors ==
    [ good |-> "#00E400", moderate |-> "#FFFF00",
      unhealthy_sensitive |-> "#FF7E00", unhealthy |-> "#FF0000",
      very_unhealthy |-> "#8F3F97", hazardous |-> "#7E0023" ]

\* a plausible slip in the table: 'moderate' typed as (50, 100)
aqi_ranges_overlap ==
    [ good |-> <<0, 50>>, moderate |-> <<50, 100>>,
      unhealthy_sensitive |-> <<101, 150>>, unhealthy |-> <<151, 200>>,
      very_unhealthy |-> <<201, 300>>, hazardous |-> <<301, 500>> ]

aqi_ranges ==
    [ good |-> <<0, 50>>, moderate |-> <<51, 100>>,
      unhealthy_sensitive |-> <<101, 150>>, unhealthy |-> <<151, 200>>,
      very_unhealthy |-> <<201, 300>>, hazardous |-> <<301, 500>> ]

\* the labels are Chinese in the source; the model keeps the range they
\* end with and glosses the words
aqi_labels ==
    [ good |-> "good (0-50)", moderate |-> "moderate (51-100)",
      unhealthy_sensitive |-> "unhealthy for sensitive groups (101-150)",
      unhealthy |-> "unhealthy for all groups (151-200)",
      very_unhealthy |-> "very unhealthy (201-300)",
      hazardous |-> "hazardous (301-500)" ]

GreyColor == "#808080"
NoDataLabel == "no data"
OutOfRangeLabel == "out of range"

\* min_val <= aqi_value <= max_val on a number or NaN: every comparison
\* with NaN is false
InRange(value, category_name) ==
    /\ value.tag = "num"
    /\ NumLE(Num(aqi_ranges[category_name][1]), value)
    /\ NumLE(value, Num(aqi_ranges[category_name][2]))

\* for category, (min_val, max_val) in self.aqi_ranges.items(): the first
\* category from position i on whose range holds v, or "" when the loop
\* ends without one
RECURSIVE ScanRanges(_, _)
ScanRanges(v, i) ==
    IF i > Len(Categories) THEN ""
    ELSE IF InRange(v, Categories[i]) THEN Categories[i]
    ELSE ScanRanges(v, i + 1)

\* a faulty variant: returns the band colour where the scan found none
get_aqi_color_no_fallback(value) ==
    IF value = None THEN GreyColor
    ELSE LET hit == ScanRanges(value, 1)
         IN  IF hit = "" THEN aqi_colors["hazardous"] ELSE aqi_colors[hit]

get_aqi_color(value) ==
    IF value = None THEN GreyColor
    ELSE LET hit == ScanRanges(value, 1)
         IN  IF hit = "" THEN GreyColor ELSE aqi_colors[hit]

get_aqi_category(value) ==
    IF value = None THEN NoDataLabel
    ELSE LET hit == ScanRanges(value, 1)
         IN  IF hit = "" THEN OutOfRangeLabel ELSE aqi_labels[hit]

(***************************************************************************)
(* The classifier on every input: None, NaN and the integers from MaxOut   *)
(* below 0 to MaxOut above 500.                                            *)
(***************************************************************************)
ClassifierInputs ==
    {None, NaN} \cup {Num(v) : v \in (0 - MaxOut)..(500 + MaxOut)}

InitClassifier ==
    /\ pc = "classify"
    /\ aqi_value \in ClassifierInputs
    /\ color = Unset
    /\ category = Unset
    /\ IdleMonitor
    /\ IdleVisualizer
    /\ IdleAnalyzer
    /\ IdleEnvironment

CallGetAqiColor ==
    /\ pc = "classify"
    /\ color = Unset
    /\ color' = get_aqi_color(aqi_value)
    /\ UNCHANGED <<pc, aqi_value, category, monitorVars, visualizerVars,
                   analyzerVars, environmentVars>>

CallGetAqiCategory ==
    /\ pc = "classify"
    /\ category = Unset
    /\ category' = get_aqi_category(aqi_value)
    /\ UNCHANGED <<pc, aqi_value, color, monitorVars, visualizerVars,
                   analyzerVars, environmentVars>>

NextClassifier == CallGetAqiColor \/ CallGetAqiCategory

SpecClassifier == InitClassifier /\ [][NextClassifier]_vars

Classified == pc = "classify" /\ color # Unset /\ category # Unset

\* the bands whose range holds v
BandsOf(value) == {i \in 1..Len(Categories) : InRange(value, Categories[i])}

\* the band the stated ranges [0,50], [51,100], [101,150], [151,200],
\* [201,300], [301,500] give an integer of 0..500
StatedBand(v) ==
    IF v <= 50 THEN "good"
    ELSE IF v <= 100 THEN "moderate"
    ELSE IF v <= 150 THEN "unhealthy_sensitive"
    ELSE IF v <= 200 THEN "unhealthy"
    ELSE IF v <= 300 THEN "very_unhealthy"
    ELSE "hazardous"

\* C1: every integer AQI from 0 to 500 lies in exactly one of the six
\* bands, and get_aqi_color / get_aqi_category return that band's colour
\* and label.
C1_OneBand ==
    (Classified /\ aqi_value.tag = "num" /\ aqi_value.val \in 0..500) =>
        /\ Cardinality(BandsOf(aqi_value)) = 1
        /\ \A i \in BandsOf(aqi_value) :
              /\ Categories[i] = StatedBand(aqi_value.val)
              /\ color = aqi_colors[Categories[i]]
              /\ category = aqi_labels[Categories[i]]

\* a band edge has been classified: 51 is 'moderate'
C1_Witness ==
    /\ Classified
    /\ aqi_value = Num(51)
    /\ color = "#FFFF00"
    /\ category = "moderate (51-100)"

BandColors == {aqi_colors[Categories[i]] : i \in 1..Len(Categories)}
BandLabels == {aqi_labels[Categories[i]] : i \in 1..Len(Categories)}

\* C2: None gives the missing-data colour and label; an integer below 0 or
\* above 500 gives the out-of-range colour and label, which are no band's
\* colour or label; both calls return a value.
C2_Markers ==
    Classified =>
        /\ aqi_value = None => (color = "#808080" /\ category = "no data")
        /\ (aqi_value.tag = "num" /\ aqi_value.val \notin 0..500) =>
              /\ color = "#808080"
              /\ category = "out of range"
              /\ color \notin BandColors
              /\ category \notin BandLabels

\* 501 has been classified as out of range
C2_Witness ==
    /\ Classified
    /\ aqi_value = Num(501)
    /\ category = "out of range"
    /\ color = "#808080"

(***************************************************************************)
(* aqi_monitor.py: station readings and identify_high_aqi_stations.        *)
(***************************************************************************)
\* the record process_aqi_data builds; the other fields are filled in by
\* the caller with EXCEPT
BlankReading ==
    [ site_id |-> 0, site_name |-> "", county |-> "", aqi |-> None,
      pollutant |-> "", status |-> "", pm25 |-> None, pm10 |-> None,
      so2 |-> None, no2 |-> None, co |-> None, o3 |-> None,
      wind_speed |-> None, wind_direction |-> None, data_time |-> "",
      latitude |-> None, longitude |-> None ]

\* Python's truth value of a nullable number: None and 0 are false, NaN and
\* every other number are true
Truthy(value) ==
    \/ value.tag = "nan"
    \/ value.tag = "num" /\ value.val # 0

\* station['aqi'] > threshold on a number or NaN
GreaterThan(value, limit) == value.tag = "num" /\ NumLT(Num(limit), value)

\* a faulty variant: keeps the readings at the threshold: >= for >
Selected_at_least(station, limit) ==
    /\ Truthy(station.aqi)
    /\ station.aqi.tag = "num"
    /\ NumLE(Num(limit), station.aqi)

\* station['aqi'] and station['aqi'] > threshold
Selected(station, limit) ==
    Truthy(station.aqi) /\ GreaterThan(station.aqi, limit)

\* [station for station in processed_data if ...]
RECURSIVE Comprehension(_, _)
Comprehension(stations, limit) ==
    IF stations = <<>> THEN <<>>
    ELSE LET rest == Comprehension(Tail(stations), limit)
         IN  IF Selected(Head(stations), limit)
             THEN <<Head(stations)>> \o rest
             ELSE rest

\* a faulty variant: puts a reading before the readings of equal aqi already
\* placed, as a sort that is not stable may
InsertDescending_before_ties(sorted, station) ==
    LET ahead == {i \in 1..Len(sorted) : NumLT(station.aqi, sorted[i].aqi)}
        k == Cardinality(ahead)
    IN  SubSeq(sorted, 1, k) \o <<station>> \o SubSeq(sorted, k + 1, Len(sorted))

\* list.sort(key=lambda x: x['aqi'], reverse=True) is stable: a reading goes
\* after every reading already placed whose aqi is greater or equal
InsertDescending(sorted, station) ==
    LET ahead == {i \in 1..Len(sorted) : NumLE(station.aqi, sorted[i].aqi)}
        k == Cardinality(ahead)
    IN  SubSeq(sorted, 1, k) \o <<station>> \o SubSeq(sorted, k + 1, Len(sorted))

RECURSIVE SortDescending(_, _)
SortDescending(sorted, stations) ==
    IF stations = <<>> THEN sorted
    ELSE SortDescending(InsertDescending(sorted, Head(stations)), Tail(stations))

\* 'if not processed_data: return []' covers None and the empty list
identify_high_aqi_stations(stations, limit) ==
    IF Not(stations) THEN <<>>
    ELSE SortDescending(<<>>, Comprehension(stations.items, limit))

(***************************************************************************)
(* The filter on every list of up to MaxReadings readings and a threshold. *)
(* A reading's site_id is its place in the list; its aqi is None or an     *)
(* integer, as process_aqi_data produces.                                  *)
(***************************************************************************)
AqiSamples == {None} \cup {Num(v) : v \in {0 - 1, 0, 50, 51, 80, 501}}
Thresholds == {0 - 1, 0, 50, 80}

ReadingLists ==
    UNION { { ListOf([i \in 1..n |->
                        [BlankReading EXCEPT !.site_id = i, !.aqi = a[i]]])
              : a \in [1..n -> AqiSamples] }
            : n \in 0..MaxReadings }

InitFilter ==
    /\ pc = "filter"
    /\ response = Unset
    /\ called = {}
    /\ raw_data = Unset
    /\ processed_data \in ReadingLists
    /\ threshold \in Thresholds
    /\ high_aqi_stations = Unset
    /\ summary = Unset
    /\ files = {}
    /\ IdleClassifier
    /\ IdleVisualizer
    /\ IdleAnalyzer
    /\ IdleEnvironment

CallIdentifyHighAqiStations ==
    /\ pc = "filter"
    /\ high_aqi_stations' = identify_high_aqi_stations(processed_data, threshold)
    /\ pc' = "filtered"
    /\ UNCHANGED <<response, called, raw_data, processed_data, threshold,
                   summary, files, classifierVars, visualizerVars,
                   analyzerVars, environmentVars>>

NextFilter == CallIdentifyHighAqiStations

SpecFilter == InitFilter /\ [][NextFilter]_vars

\* C3: identify_high_aqi_stations returns no reading whose aqi is null or
\* at most the threshold, and what it returns is in non-increasing order
\* of aqi.
C3_AboveThresholdSorted ==
    pc = "filtered" =>
        /\ \A j \in 1..Len(high_aqi_stations) :
              /\ high_aqi_stations[j].aqi # None
              /\ high_aqi_stations[j].aqi.tag = "num"
              /\ ~(high_aqi_stations[j].aqi.val <= threshold)
        /\ \A j \in 1..(Len(high_aqi_stations) - 1) :
              high_aqi_stations[j].aqi.val >= high_aqi_stations[j + 1].aqi.val

\* three readings given in increasing order, one at the threshold, came
\* back as the two above it in decreasing order
C3_Witness ==
    /\ pc = "filtered"
    /\ threshold = 50
    /\ Len(processed_data.items) = 3
    /\ processed_data.items[1].aqi = Num(50)
    /\ processed_data.items[2].aqi = Num(51)
    /\ processed_data.items[3].aqi = Num(80)
    /\ Len(high_aqi_stations) = 2
    /\ high_aqi_stations[1].aqi = Num(80)
    /\ high_aqi_stations[2].aqi = Num(51)

\* C4: identify_high_aqi_stations returns exactly the readings whose aqi
\* is non-null and strictly greater than the threshold, each once, also for
\* a negative threshold and a reading whose aqi is 0.
C4_ExactlyTheReadingsAbove ==
    pc = "filtered" =>
        /\ \A i \in 1..Len(processed_data.items) :
              (processed_data.items[i].aqi # None
                  /\ processed_data.items[i].aqi.val > threshold) =>
                 Cardinality({j \in 1..Len(high_aqi_stations) :
                                high_aqi_stations[j] = processed_data.items[i]}) = 1
        /\ \A j \in 1..Len(high_aqi_stations) :
              \E i \in 1..Len(processed_data.items) :
                 /\ high_aqi_stations[j] = processed_data.items[i]
                 /\ processed_data.items[i].aqi # None
                 /\ processed_data.items[i].aqi.val > threshold

\* C5: two readings of equal aqi come back in the order they were given in.
C5_StableSort ==
    pc = "filtered" =>
        \A j, k \in 1..Len(high_aqi_stations) :
            (j < k /\ high_aqi_stations[j].aqi = high_aqi_stations[k].aqi) =>
                high_aqi_stations[j].site_id < high_aqi_stations[k].site_id

\* two readings of aqi 80 with a smaller one between them came back first
\* and second, in the order given
C5_Witness ==
    /\ pc = "filtered"
    /\ threshold = 50
    /\ Len(processed_data.items) = 3
    /\ processed_data.items[1].aqi = Num(80)
    /\ processed_data.items[2].aqi = Num(51)
    /\ processed_data.items[3].aqi = Num(80)
    /\ Len(high_aqi_stations) = 3
    /\ high_aqi_stations[1].site_id = 1
    /\ high_aqi_stations[2].site_id = 3
    /\ high_aqi_stations[3].site_id = 2

(***************************************************************************)
(* Values that stand for an exception: int() of NaN, max() of an empty     *)
(* list, a division by zero.  A function whose body evaluates one raises.  *)
(***************************************************************************)
Raise == [tag |-> "raise", val |-> 0, den |-> 1]
Returned(value) == [raised |-> FALSE, is_none |-> FALSE, value |-> value]
ReturnedNone == [raised |-> FALSE, is_none |-> TRUE, value |-> <<>>]
Raised == [raised |-> TRUE, is_none |-> FALSE, value |-> <<>>]

\* the sum, the largest and the smallest of a sequence of integers
RECURSIVE Sum(_)
Sum(values) == IF values = <<>> THEN 0 ELSE Head(values) + Sum(Tail(values))
Largest(values) ==
    CHOOSE v \in {values[i] : i \in DOMAIN values} :
        \A i \in DOMAIN values : values[i] <= v
Smallest(values) ==
    CHOOSE v \in {values[i] : i \in DOMAIN values} :
        \A i \in DOMAIN values : v <= values[i]

\* the values in increasing order
RECURSIVE Ascending(_)
Ascending(values) ==
    IF values = <<>> THEN <<>>
    ELSE LET m == Smallest(values)
             at == CHOOSE i \in DOMAIN values : values[i] = m
         IN  <<m>> \o Ascending(SubSeq(values, 1, at - 1)
                                   \o SubSeq(values, at + 1, Len(values)))

(***************************************************************************)
(* aqi_map_visualization.py: create_statistics_summary on a DataFrame.     *)
(* A DataFrame is the list of its rows; an empty cell of a numeric column  *)
(* is NaN.                                                                 *)
(***************************************************************************)
\* pd.DataFrame(processed_data).to_csv(...) then pd.read_csv(...): None in
\* a numeric column is written as an empty cell and read back as NaN
NoneToNaN(value) == IF value.tag = "none" THEN NaN ELSE value
read_csv(stations) ==
    [i \in DOMAIN stations |->
        [stations[i] EXCEPT !.aqi = NoneToNaN(@), !.pm25 = NoneToNaN(@),
                            !.pm10 = NoneToNaN(@), !.so2 = NoneToNaN(@),
                            !.no2 = NoneToNaN(@), !.co = NoneToNaN(@),
                            !.o3 = NoneToNaN(@), !.wind_speed = NoneToNaN(@),
                            !.wind_direction = NoneToNaN(@),
                            !.latitude = NoneToNaN(@),
                            !.longitude = NoneToNaN(@)]]

\* len(df[(df['aqi'] >= min_val) & (df['aqi'] <= max_val)])
CountInRange(rows, category_name) ==
    Cardinality({i \in DOMAIN rows : InRange(rows[i].aqi, category_name)})

\* len(df[df['aqi'].isna()])
CountMissing(rows) ==
    Cardinality({i \in DOMAIN rows : rows[i].aqi.tag # "num"})

\* df[df['aqi'].notna()]['aqi'], as the sequence of its integers
RECURSIVE ValidAqi(_)
ValidAqi(rows) ==
    IF rows = <<>> THEN <<>>
    ELSE IF Head(rows).aqi.tag = "num"
         THEN <<Head(rows).aqi.val>> \o ValidAqi(Tail(rows))
         ELSE ValidAqi(Tail(rows))

\* Series.max(), .min(), .mean(), .median(): NaN on an empty Series
SeriesMax(values) == IF values = <<>> THEN NaN ELSE Num(Largest(values))
SeriesMin(values) == IF values = <<>> THEN NaN ELSE Num(Smallest(values))
SeriesMean(values) ==
    IF values = <<>> THEN NaN ELSE Ratio(Sum(values), Len(values))
SeriesMedian(values) ==
    IF values = <<>> THEN NaN
    ELSE LET sorted == Ascending(values)
             n == Len(values)
         IN  IF n % 2 = 1 THEN Num(sorted[(n + 1) \div 2])
             ELSE Ratio(sorted[n \div 2] + sorted[n \div 2 + 1], 2)

\* int(x): truncation towards zero; int(NaN) raises ValueError
PyInt(x) ==
    IF x.tag # "num" THEN Raise
    ELSE IF x.val >= 0 THEN Num(x.val \div x.den)
    ELSE Num(0 - ((0 - x.val) \div x.den))

\* round(x, 1): to the nearest tenth, a tie to the even tenth; round(NaN, 1)
\* is NaN
Round1(x) ==
    IF x.tag # "num" THEN x
    ELSE LET q == (10 * x.val) \div x.den
             r == (10 * x.val) % x.den
             tenths == IF 2 * r < x.den THEN q
                       ELSE IF 2 * r > x.den THEN q + 1
                       ELSE IF q % 2 = 0 THEN q ELSE q + 1
         IN  Ratio(tenths, 10)

\* a faulty variant: computes the statistics without the 'if len(valid_aqi) > 0'
\* guards
Statistics_unguarded(valid_aqi) ==
    [ max_aqi |-> PyInt(SeriesMax(valid_aqi)),
      min_aqi |-> PyInt(SeriesMin(valid_aqi)),
      avg_aqi |-> Round1(SeriesMean(valid_aqi)),
      median_aqi |-> PyInt(SeriesMedian(valid_aqi)) ]

\* the 'statistics' entry of the summary
Statistics(valid_aqi) ==
    [ max_aqi |-> IF Len(valid_aqi) > 0 THEN PyInt(SeriesMax(valid_aqi)) ELSE None,
      min_aqi |-> IF Len(valid_aqi) > 0 THEN PyInt(SeriesMin(valid_aqi)) ELSE None,
      avg_aqi |-> IF Len(valid_aqi) > 0 THEN Round1(SeriesMean(valid_aqi)) ELSE None,
      median_aqi |-> IF Len(valid_aqi) > 0 THEN PyInt(SeriesMedian(valid_aqi)) ELSE None ]

\* category_counts: the six bands, and 'missing' only when missing_count > 0
CategoryCounts(rows) ==
    LET keys == {Categories[i] : i \in DOMAIN Categories}
                   \cup (IF CountMissing(rows) > 0 THEN {"missing"} ELSE {})
    IN  [k \in keys |-> IF k = "missing" THEN CountMissing(rows)
                        ELSE CountInRange(rows, k)]

create_statistics_summary(frame) ==
    IF frame.is_none THEN ReturnedNone
    ELSE LET rows == frame.items
             statistics == Statistics(ValidAqi(rows))
         IN  IF \E k \in DOMAIN statistics : statistics[k].tag = "raise"
             THEN Raised
             ELSE Returned(
                    [ total_stations |-> Len(rows),
                      stations_with_data |-> Len(ValidAqi(rows)),
                      stations_missing_data |-> CountMissing(rows),
                      category_distribution |-> CategoryCounts(rows),
                      statistics |-> statistics ])

(***************************************************************************)
(* aqi_monitor.py: generate_summary.                                       *)
(***************************************************************************)
\* [s['aqi'] for s in processed_data if s['aqi'] is not None]
RECURSIVE AqiValues(_)
AqiValues(stations) ==
    IF stations = <<>> THEN <<>>
    ELSE IF Head(stations).aqi # None
         THEN <<Head(stations).aqi.val>> \o AqiValues(Tail(stations))
         ELSE AqiValues(Tail(stations))

\* max(), min() and sum()/len() of a list: the first two raise ValueError
\* on an empty list, the division ZeroDivisionError
ListMax(values) == IF values = <<>> THEN Raise ELSE Num(Largest(values))
ListMin(values) == IF values = <<>> THEN Raise ELSE Num(Smallest(values))
ListAvg(values) ==
    IF values = <<>> THEN Raise ELSE Ratio(Sum(values), Len(values))

generate_summary(stations, high) ==
    IF Not(stations) THEN ReturnedNone
    ELSE LET total_stations == Len(stations.items)
             high_aqi_count == Len(high)
             aqi_values == AqiValues(stations.items)
             made ==
               [ total_stations |-> Num(total_stations),
                 stations_with_aqi_data |-> Num(Len(aqi_values)),
                 high_aqi_stations |-> Num(high_aqi_count),
                 percentage_high_aqi |->
                     IF total_stations > 0
                     THEN Ratio(high_aqi_count * 100, total_stations)
                     ELSE Num(0),
                 max_aqi |-> IF aqi_values # <<>> THEN ListMax(aqi_values) ELSE None,
                 min_aqi |-> IF aqi_values # <<>> THEN ListMin(aqi_values) ELSE None,
                 avg_aqi |-> IF aqi_values # <<>> THEN ListAvg(aqi_values) ELSE None ]
         IN  IF \E k \in DOMAIN made : made[k].tag = "raise"
             THEN Raised
             ELSE Returned(made)

(***************************************************************************)
(* The two summaries on every list of up to MaxReadings readings: the      *)
(* monitor's generate_summary on the readings, then the visualizer's       *)
(* create_statistics_summary on the DataFrame read back from their export. *)
(***************************************************************************)
InitSummary ==
    /\ pc = "generate_summary"
    /\ response = Unset
    /\ called = {}
    /\ raw_data = Unset
    /\ processed_data \in ReadingLists
    /\ threshold = 50
    /\ high_aqi_stations = identify_high_aqi_stations(processed_data, 50)
    /\ summary = Unset
    /\ files = {}
    /\ df = ListOf(read_csv(processed_data.items))
    /\ map_summary = Unset
    /\ markers = Unset
    /\ IdleClassifier
    /\ IdleAnalyzer
    /\ IdleEnvironment

CallGenerateSummary ==
    /\ pc = "generate_summary"
    /\ summary' = generate_summary(processed_data, high_aqi_stations)
    /\ pc' = "create_statistics_summary"
    /\ UNCHANGED <<response, called, raw_data, processed_data, threshold,
                   high_aqi_stations, files, visualizerVars, classifierVars,
                   analyzerVars, environmentVars>>

CallCreateStatisticsSummary ==
    /\ pc = "create_statistics_summary"
    /\ map_summary' = create_statistics_summary(df)
    /\ pc' = "summarised"
    /\ UNCHANGED <<monitorVars, df, markers, classifierVars,
                   analyzerVars, environmentVars>>

NextSummary == CallGenerateSummary \/ CallCreateStatisticsSummary

SpecSummary == InitSummary /\ [][NextSummary]_vars

\* the six band counts of a summary, added up
BandCountSum(made) ==
    LET counts == [i \in DOMAIN Categories |->
                      made.category_distribution[Categories[i]]]
    IN  Sum(counts)

\* C6: the six band counts plus the count of null-AQI readings add up to
\* total_stations, also when the dataset holds AQI values below 0 or above
\* 500.
C6_CountsSumToTotal ==
    (pc = "summarised" /\ ~map_summary.raised) =>
        BandCountSum(map_summary.value)
            + map_summary.value.stations_missing_data
          = map_summary.value.total_stations

NoAqiAtAll ==
    \A i \in DOMAIN processed_data.items : processed_data.items[i].aqi = None

\* C7: when no reading has an AQI, create_statistics_summary returns null
\* for max, min, mean and median, and generate_summary on a non-empty list
\* returns null for max, min and mean; neither raises.
C7_NullStatistics ==
    (pc = "summarised" /\ NoAqiAtAll) =>
        /\ ~map_summary.raised
        /\ map_summary.value.statistics.max_aqi = None
        /\ map_summary.value.statistics.min_aqi = None
        /\ map_summary.value.statistics.avg_aqi = None
        /\ map_summary.value.statistics.median_aqi = None
        /\ ~summary.raised
        /\ processed_data.items # <<>> =>
              /\ summary.value.max_aqi = None
              /\ summary.value.min_aqi = None
              /\ summary.value.avg_aqi = None

\* both summaries were made of two readings without an AQI
C7_Witness ==
    /\ pc = "summarised"
    /\ Len(processed_data.items) = 2
    /\ NoAqiAtAll
    /\ ~summary.raised
    /\ summary.value.total_stations = Num(2)
    /\ summary.value.max_aqi = None
    /\ ~map_summary.raised
    /\ map_summary.value.stations_missing_data = 2
    /\ map_summary.value.statistics.median_aqi = None

(***************************************************************************)
(* aqi_monitor.py: process_aqi_data.  A raw record is a function from the  *)
(* keys of the API's JSON object to JSON values; Absent is a missing key.  *)
(***************************************************************************)
Absent == [kind |-> "absent", chars |-> <<>>, n |-> 0]
JNull == [kind |-> "null", chars |-> <<>>, n |-> 0]
JStr(chars) == [kind |-> "str", chars |-> chars, n |-> 0]
JNum(n) == [kind |-> "num", chars |-> <<>>, n |-> n]
\* a JSON array or object of n members
JList(n) == [kind |-> "list", chars |-> <<>>, n |-> n]

ValueError == [tag |-> "ValueError", val |-> 0, den |-> 1]
TypeError == [tag |-> "TypeError", val |-> 0, den |-> 1]

\* record.get(key) and record.get(key, 0)
Get(record, key) == IF record[key].kind = "absent" THEN JNull ELSE record[key]
GetOr0(record, key) ==
    IF record[key].kind = "absent" THEN JNum(0) ELSE record[key]

\* the truth value of a JSON value: None, '', 0 and [] are false
RawTruthy(x) ==
    CASE x.kind = "str" -> x.chars # <<>>
      [] x.kind = "num" -> x.n # 0
      [] x.kind = "list" -> x.n > 0
      [] OTHER -> FALSE

DigitChars == <<"0", "1", "2", "3", "4", "5", "6", "7", "8", "9">>
IsDigit(c) == \E d \in DOMAIN DigitChars : DigitChars[d] = c
DigitOf(c) == (CHOOSE d \in DOMAIN DigitChars : DigitChars[d] = c) - 1

\* the number a sequence of digits writes
RECURSIVE DigitsValue(_)
DigitsValue(digits) ==
    IF digits = <<>> THEN 0
    ELSE 10 * DigitsValue(SubSeq(digits, 1, Len(digits) - 1))
            + DigitOf(digits[Len(digits)])

RECURSIVE Pow10(_)
Pow10(k) == IF k = 0 THEN 1 ELSE 10 * Pow10(k - 1)

RECURSIVE Without(_, _)
Without(chars, c) ==
    IF chars = <<>> THEN <<>>
    ELSE IF Head(chars) = c THEN Without(Tail(chars), c)
    ELSE <<Head(chars)>> \o Without(Tail(chars), c)

Negative(chars) == chars # <<>> /\ chars[1] = "-"
Unsigned(chars) == IF Negative(chars) THEN Tail(chars) ELSE chars

\* int('...'): an optional sign and one or more digits, else ValueError
ParseInt(chars) ==
    LET body == Unsigned(chars)
    IN  IF body = <<>> \/ \E i \in DOMAIN body : ~IsDigit(body[i])
        THEN ValueError
        ELSE Num((IF Negative(chars) THEN 0 - 1 ELSE 1) * DigitsValue(body))

\* float('...'): an optional sign, digits and at most one point, with at
\* least one digit, else ValueError
ParseFloat(chars) ==
    LET body == Unsigned(chars)
        points == {i \in DOMAIN body : body[i] = "."}
        digits == Without(body, ".")
    IN  IF \/ digits = <<>>
           \/ Cardinality(points) > 1
           \/ \E i \in DOMAIN digits : ~IsDigit(digits[i])
        THEN ValueError
        ELSE LET decimals == IF points = {} THEN 0
                             ELSE Len(body) - (CHOOSE i \in points : TRUE)
             IN  Ratio((IF Negative(chars) THEN 0 - 1 ELSE 1) * DigitsValue(digits),
                       Pow10(decimals))

\* int(x) and float(x) of a JSON value: None and a list raise TypeError
IntOf(x) ==
    CASE x.kind = "num" -> Num(x.n)
      [] x.kind = "str" -> ParseInt(x.chars)
      [] OTHER -> TypeError
FloatOf(x) ==
    CASE x.kind = "num" -> Num(x.n)
      [] x.kind = "str" -> ParseFloat(x.chars)
      [] OTHER -> TypeError

\* a faulty variant: coerces without the truthiness test
CoerceInt_unguarded(record, key) == IntOf(GetOr0(record, key))

\* int(record.get(key, 0)) if record.get(key) else None
CoerceInt(record, key) ==
    IF RawTruthy(Get(record, key)) THEN IntOf(GetOr0(record, key)) ELSE None

\* float(record.get(key, 0)) if record.get(key) else None
CoerceFloat(record, key) ==
    IF RawTruthy(Get(record, key)) THEN FloatOf(GetOr0(record, key)) ELSE None

\* the numeric fields of a reading and the raw key each is read from
NumericFields ==
    << <<"aqi", "aqi">>, <<"pm25", "pm2.5">>, <<"pm10", "pm10">>,
       <<"so2", "so2">>, <<"no2", "no2">>, <<"co", "co">>, <<"o3", "o3">>,
       <<"wind_speed", "windspeed">>, <<"wind_direction", "winddirec">>,
       <<"latitude", "latitude">>, <<"longitude", "longitude">> >>

\* the dict literal of the loop body; a field that raised holds the error
processed_record(record) ==
    [ site_id |-> Get(record, "siteid"),
      site_name |-> Get(record, "sitename"),
      county |-> Get(record, "county"),
      aqi |-> CoerceInt(record, "aqi"),
      pollutant |-> Get(record, "pollutant"),
      status |-> Get(record, "status"),
      pm25 |-> CoerceFloat(record, "pm2.5"),
      pm10 |-> CoerceFloat(record, "pm10"),
      so2 |-> CoerceFloat(record, "so2"),
      no2 |-> CoerceFloat(record, "no2"),
      co |-> CoerceFloat(record, "co"),
      o3 |-> CoerceFloat(record, "o3"),
      wind_speed |-> CoerceFloat(record, "windspeed"),
      wind_direction |-> CoerceFloat(record, "winddirec"),
      data_time |-> Get(record, "datacreationdate"),
      latitude |-> CoerceFloat(record, "latitude"),
      longitude |-> CoerceFloat(record, "longitude") ]

\* except (ValueError, TypeError): the dict literal raised one of the two
Caught(made) ==
    \E i \in DOMAIN NumericFields :
        made[NumericFields[i][1]].tag \in {"ValueError", "TypeError"}

\* a faulty variant: leaves the loop at the first record that raises
RECURSIVE ProcessLoop_break(_)
ProcessLoop_break(records) ==
    IF records = <<>> THEN <<>>
    ELSE LET made == processed_record(Head(records))
         IN  IF Caught(made) THEN <<>>
             ELSE <<made>> \o ProcessLoop_break(Tail(records))

\* for record in raw_data: try: ... append ... except: ... continue
RECURSIVE ProcessLoop(_)
ProcessLoop(records) ==
    IF records = <<>> THEN <<>>
    ELSE LET made == processed_record(Head(records))
         IN  IF Caught(made) THEN ProcessLoop(Tail(records))
             ELSE <<made>> \o ProcessLoop(Tail(records))

process_aqi_data(raw) ==
    IF Not(raw) THEN NoList ELSE ListOf(ProcessLoop(raw.items))

(***************************************************************************)
(* process_aqi_data on lists of up to MaxRecords raw records.  A raw       *)
(* record is a well-formed record (every numeric field the string '42')    *)
(* with one numeric field replaced by a sample value, or with every        *)
(* numeric field replaced by the same falsy value; its siteid is its place *)
(* in the list.  The strings are over digits, '-', '.' and characters that *)
(* no numeral holds.                                                       *)
(***************************************************************************)
TextKeys == {"siteid", "sitename", "county", "pollutant", "status", "datacreationdate"}
NumericKeys == {NumericFields[i][2] : i \in DOMAIN NumericFields}

FalsySamples == {Absent, JNull, JStr(<<>>), JNum(0)}
RawSamples ==
    FalsySamples \cup
      { JNum(7), JStr(<<"0">>), JStr(<<"2", ".", "5">>),
        JStr(<<"N", "/", "A">>), JList(1) }

WellFormed(i) ==
    [k \in TextKeys \cup NumericKeys |->
        IF k = "siteid" THEN JStr(<<DigitChars[i + 1]>>)
        ELSE IF k \in NumericKeys THEN JStr(<<"4", "2">>)
        ELSE JStr(<<"A">>)]

Shapes ==
    {<<"", Absent>>}
       \cup (NumericKeys \X RawSamples)
       \cup ({"*"} \X FalsySamples)

RawRecord(i, shape) ==
    IF shape[1] = "" THEN WellFormed(i)
    ELSE IF shape[1] = "*"
         THEN [k \in TextKeys \cup NumericKeys |->
                  IF k \in NumericKeys THEN shape[2] ELSE WellFormed(i)[k]]
         ELSE [WellFormed(i) EXCEPT ![shape[1]] = shape[2]]

\* what the records beside the one under test are: well-formed, faulting
\* on a non-numeric latitude, or with an empty aqi
SiblingShapes ==
    {<<"", Absent>>, <<"latitude", JStr(<<"N", "/", "A">>)>>, <<"aqi", JStr(<<>>)>>}

\* siblings, with a record of the given shape at the given place (none at
\* place 0)
ShapeList(siblings, place, shape) ==
    [i \in DOMAIN siblings |-> IF i = place THEN shape ELSE siblings[i]]

\* the list of the raw records of the given shapes
RawList(shapes) == ListOf([i \in DOMAIN shapes |-> RawRecord(i, shapes[i])])

InitProcess ==
    /\ pc = "process"
    /\ response = Unset
    /\ called = {}
    /\ \E n \in 0..MaxRecords, shape \in Shapes :
          \E place \in 0..n, siblings \in [1..n -> SiblingShapes] :
              raw_data = RawList(ShapeList(siblings, place, shape))
    /\ processed_data = Unset
    /\ threshold = 50
    /\ high_aqi_stations = Unset
    /\ summary = Unset
    /\ files = {}
    /\ IdleClassifier
    /\ IdleVisualizer
    /\ IdleAnalyzer
    /\ IdleEnvironment

CallProcessAqiData ==
    /\ pc = "process"
    /\ processed_data' = process_aqi_data(raw_data)
    /\ pc' = "processed"
    /\ UNCHANGED <<response, called, raw_data, threshold, high_aqi_stations,
                   summary, files, classifierVars, visualizerVars,
                   analyzerVars, environmentVars>>

NextProcess == CallProcessAqiData

SpecProcess == InitProcess /\ [][NextProcess]_vars

\* as the claims state them: a field is absent or falsy when its key is
\* missing or its value is None, '', 0 or an empty list
StatedFalsy(x) ==
    \/ x.kind \in {"absent", "null"}
    \/ x.kind = "str" /\ x.chars = <<>>
    \/ x.kind \in {"num", "list"} /\ x.n = 0

\* a truthy value cannot be parsed as an integer when it is a list or a
\* string other than a signed run of digits; as a float when it is a list or
\* a string other than a signed decimal numeral
NumeralChars == {DigitChars[d] : d \in DOMAIN DigitChars}
StatedUnparsable(x, integer) ==
    /\ ~StatedFalsy(x)
    /\ \/ x.kind = "list"
       \/ /\ x.kind = "str"
          /\ LET body == Unsigned(x.chars)
                 points == Cardinality({i \in DOMAIN body : body[i] = "."})
                 others == {i \in DOMAIN body : body[i] \notin NumeralChars \cup {"."}}
             IN  \/ others # {}
                 \/ points > (IF integer THEN 0 ELSE 1)
                 \/ points = Len(body)

\* the raw record has a numeric field that cannot be parsed
Faulting(record) ==
    \E i \in DOMAIN NumericFields :
        StatedUnparsable(record[NumericFields[i][2]], NumericFields[i][1] = "aqi")

\* the readings made of the record at place i
ReadingsOf(i) ==
    {j \in DOMAIN processed_data.items :
        processed_data.items[j].site_id = raw_data.items[i]["siteid"]}

\* C8: a raw record whose aqi (or any other numeric field) is absent or
\* falsy, and none of whose fields faults, gives exactly one reading, kept
\* in the output, in which that field is null.
C8_FalsyFieldIsNull ==
    pc = "processed" =>
        \A i \in DOMAIN raw_data.items :
            \A f \in DOMAIN NumericFields :
                (StatedFalsy(raw_data.items[i][NumericFields[f][2]])
                    /\ ~Faulting(raw_data.items[i])) =>
                   /\ ~processed_data.is_none
                   /\ Cardinality(ReadingsOf(i)) = 1
                   /\ \A j \in ReadingsOf(i) :
                         processed_data.items[j][NumericFields[f][1]] = None

\* a record with an empty aqi string and one with a numeric 0 as pm2.5 were
\* both kept, with aqi and pm25 null
C8_Witness ==
    /\ pc = "processed"
    /\ Len(raw_data.items) = 2
    /\ raw_data.items[1]["aqi"] = JStr(<<>>)
    /\ raw_data.items[2]["pm2.5"] = JNum(0)
    /\ Len(processed_data.items) = 2
    /\ processed_data.items[1].aqi = None
    /\ processed_data.items[1].pm25 = Num(42)
    /\ processed_data.items[2].pm25 = None
    /\ processed_data.items[2].aqi = Num(42)

\* the places of the raw records that do not fault, in order
RECURSIVE SoundPlaces(_, _)
SoundPlaces(records, i) ==
    IF i > Len(records) THEN <<>>
    ELSE IF Faulting(records[i]) THEN SoundPlaces(records, i + 1)
    ELSE <<i>> \o SoundPlaces(records, i + 1)

\* C9: a raw record with a truthy numeric field that cannot be parsed is
\* left out, the records after it are still processed, and the output holds
\* one reading for every other record, in input order.
C9_FaultingRecordsSkipped ==
    (pc = "processed" /\ raw_data.items # <<>>) =>
        LET sound == SoundPlaces(raw_data.items, 1)
        IN  /\ ~processed_data.is_none
            /\ Len(processed_data.items) = Len(sound)
            /\ \A j \in DOMAIN sound :
                  processed_data.items[j].site_id
                     = raw_data.items[sound[j]]["siteid"]

\* the first record had a non-numeric latitude and was left out; the
\* second was processed
C9_Witness ==
    /\ pc = "processed"
    /\ Len(raw_data.items) = 2
    /\ raw_data.items[1]["latitude"] = JStr(<<"N", "/", "A">>)
    /\ raw_data.items[2] = WellFormed(2)
    /\ Len(processed_data.items) = 1
    /\ processed_data.items[1].site_id = JStr(<<"2">>)
    /\ processed_data.items[1].latitude = Num(42)

(***************************************************************************)
(* aqi_monitor.py: run_monitoring, one action for each step of the run.    *)
(***************************************************************************)
\* os.getenv('MOENV_API_KEY'): None when the variable is not set, else its
\* text
NoKey == [is_none |-> TRUE, text |-> ""]
Key(text) == [is_none |-> FALSE, text |-> text]
Placeholder == "your_moenv_api_key_here"

\* a faulty variant: the test without its comparison with the placeholder
KeyRejected_placeholder_accepted(key) == key.is_none \/ key.text = ""

\* not self.api_key or self.api_key == 'your_moenv_api_key_here'
KeyRejected(key) ==
    \/ key.is_none
    \/ key.text = ""
    \/ key.text = Placeholder

\* the values of MOENV_API_KEY the script is started with
ApiKeys == {NoKey, Key(""), Key(Placeholder), Key("a1b2c3")}

\* how the HTTP exchange of fetch_aqi_data ends: requests.get raises, the
\* status is an error, the body is not JSON, or the body parses
Responses == {"connection_error", "http_error", "json_error", "ok"}

\* both except clauses return None
fetch_aqi_data(outcome, body) == IF outcome = "ok" THEN body ELSE NoList

\* a faulty variant: goes on to save_results where run_monitoring returns
AfterProcess_no_return(processed) ==
    IF Not(processed) THEN "save" ELSE "identify"

\* if not raw_data: return, and if not processed_data: return
AfterFetch(raw) == IF Not(raw) THEN "exit" ELSE "process"
AfterProcess(processed) == IF Not(processed) THEN "exit" ELSE "identify"

\* the prints of the summary: summary[...] raises on None, and the format
\* {summary['avg_aqi']:.1f} raises TypeError when avg_aqi is None
DisplayRaises(made) ==
    \/ made.raised
    \/ made.is_none
    \/ made.value.avg_aqi.tag = "none"

\* the seconds the clock shows during a run: 0 to MaxClock
MaxClock == 2

\* a file written to the outputs directory: the timestamp in its name is
\* the second the clock shows
Written(name, timestamp) == [name |-> name, stamp |-> timestamp]

\* a second passes
Tick ==
    /\ pc \notin {"construct", "startup_fault", "exit", "crashed", "done"}
    /\ now < MaxClock
    /\ now' = now + 1
    /\ UNCHANGED <<pc, api_key, classifierVars, monitorVars, visualizerVars,
                   analyzerVars>>

\* the records the API answers with in a run: well-formed ones (aqi 42),
\* ones with aqi 80, with an empty aqi, and with a non-numeric latitude
FetchShapes == SiblingShapes \cup {<<"aqi", JStr(<<"8", "0">>)>>}

Init ==
    /\ pc = "construct"
    /\ api_key \in ApiKeys
    /\ now = 0
    /\ response = Unset
    /\ called = {}
    /\ raw_data = NoList
    /\ processed_data = NoList
    /\ threshold = 50
    /\ high_aqi_stations = <<>>
    /\ summary = ReturnedNone
    /\ files = {}
    /\ IdleClassifier
    /\ IdleVisualizer
    /\ IdleAnalyzer

\* monitor = AQIMonitor(): the ValueError of __init__ is caught by the
\* 'except Exception' of the script, which prints it and ends
Construct ==
    /\ pc = "construct"
    /\ pc' = IF KeyRejected(api_key) THEN "startup_fault" ELSE "fetch"
    /\ called' = called \cup {"__init__"}
    /\ UNCHANGED <<response, raw_data, processed_data, threshold,
                   high_aqi_stations, summary, files, classifierVars,
                   visualizerVars, analyzerVars, environmentVars>>

Fetch ==
    /\ pc = "fetch"
    /\ \E outcome \in Responses, n \in 0..MaxRecords :
          \E shapes \in [1..n -> FetchShapes] :
              /\ response' = outcome
              /\ raw_data' = fetch_aqi_data(outcome, RawList(shapes))
              /\ pc' = AfterFetch(fetch_aqi_data(outcome, RawList(shapes)))
    /\ called' = called \cup {"fetch_aqi_data"}
    /\ UNCHANGED <<processed_data, threshold, high_aqi_stations, summary,
                   files, classifierVars, visualizerVars,
                   analyzerVars, environmentVars>>

Process ==
    /\ pc = "process"
    /\ processed_data' = process_aqi_data(raw_data)
    /\ pc' = AfterProcess(process_aqi_data(raw_data))
    /\ called' = called \cup {"process_aqi_data"}
    /\ UNCHANGED <<response, raw_data, threshold, high_aqi_stations, summary,
                   files, classifierVars, visualizerVars,
                   analyzerVars, environmentVars>>

Identify ==
    /\ pc = "identify"
    /\ high_aqi_stations' = identify_high_aqi_stations(processed_data, threshold)
    /\ pc' = "summarise"
    /\ called' = called \cup {"identify_high_aqi_stations"}
    /\ UNCHANGED <<response, raw_data, processed_data, threshold, summary,
                   files, classifierVars, visualizerVars,
                   analyzerVars, environmentVars>>

Summarise ==
    /\ pc = "summarise"
    /\ summary' = generate_summary(processed_data, high_aqi_stations)
    /\ pc' = "display"
    /\ called' = called \cup {"generate_summary"}
    /\ UNCHANGED <<response, raw_data, processed_data, threshold,
                   high_aqi_stations, files, classifierVars, visualizerVars,
                   analyzerVars, environmentVars>>

Display ==
    /\ pc = "display"
    /\ pc' = IF DisplayRaises(summary) THEN "crashed" ELSE "save"
    /\ UNCHANGED <<monitorVars, classifierVars, visualizerVars,
                   analyzerVars, environmentVars>>

Save ==
    /\ pc = "save"
    /\ files' = files \cup {Written("all_aqi_data.csv", now),
                            Written("high_aqi_stations.csv", now),
                            Written("aqi_summary.json", now)}
    /\ pc' = "visualize"
    /\ called' = called \cup {"save_results"}
    /\ UNCHANGED <<response, raw_data, processed_data, threshold,
                   high_aqi_stations, summary, classifierVars, visualizerVars,
                   analyzerVars, environmentVars>>

Visualize ==
    /\ pc = "visualize"
    /\ files' = IF high_aqi_stations = <<>> THEN files
                ELSE files \cup {Written("high_aqi_chart.png", now)}
    /\ pc' = "done"
    /\ called' = called \cup {"create_visualization"}
    /\ UNCHANGED <<response, raw_data, processed_data, threshold,
                   high_aqi_stations, summary, classifierVars, visualizerVars,
                   analyzerVars, environmentVars>>

Next ==
    \/ Construct
    \/ Fetch
    \/ Process
    \/ Identify
    \/ Summarise
    \/ Display
    \/ Save
    \/ Visualize
    \/ Tick

Spec == Init /\ [][Next]_vars

\* fetch_aqi_data has returned None, or process_aqi_data has returned no
\* reading
FetchFailed == "fetch_aqi_data" \in called /\ raw_data.is_none
NothingProcessed == "process_aqi_data" \in called /\ Not(processed_data)

\* C10: when fetch_aqi_data fails or process_aqi_data yields no reading,
\* run_monitoring ends with neither save_results nor create_visualization
\* called and no output file written.
C10_NoOutputAfterFailure ==
    (FetchFailed \/ NothingProcessed) =>
        /\ pc = "exit"
        /\ "save_results" \notin called
        /\ "create_visualization" \notin called
        /\ files = {}

\* the only record fetched had a non-numeric latitude: nothing was
\* processed and the run has ended
C10_Witness ==
    /\ pc = "exit"
    /\ response = "ok"
    /\ Len(raw_data.items) = 1
    /\ "process_aqi_data" \in called
    /\ processed_data = ListOf(<<>>)
    /\ files = {}

\* the request failed with an HTTP error and the run has ended
C10_WitnessFetch ==
    /\ pc = "exit"
    /\ response = "http_error"
    /\ raw_data = NoList
    /\ called = {"__init__", "fetch_aqi_data"}

\* C11: when MOENV_API_KEY is unset, empty or the placeholder
\* 'your_moenv_api_key_here', constructing AQIMonitor raises: the run ends
\* at construction, no HTTP request is issued and no output file is written.
C11_StartupFault ==
    (pc # "construct"
        /\ (api_key.is_none \/ api_key.text \in {"", "your_moenv_api_key_here"}))
      => /\ pc = "startup_fault"
         /\ response = Unset
         /\ called = {"__init__"}
         /\ files = {}

\* the script was started with the placeholder key and ended at construction
C11_Witness ==
    /\ pc = "startup_fault"
    /\ api_key = Key("your_moenv_api_key_here")
    /\ called = {"__init__"}

(***************************************************************************)
(* distance_analysis.py: haversine_distance.  A float of the computation   *)
(* is kept to four decimals, as the integer x * Unit, and an operation     *)
(* rounds its result towards zero, so that, as in IEEE arithmetic, the     *)
(* magnitude of a result does not depend on the signs of the operands.     *)
(***************************************************************************)
Unit == 10000
Pi == 31416
HalfPi == 15708

Sign(x) == IF x < 0 THEN 0 - 1 ELSE 1

\* x * y and x / n on floats
Times(x, y) == Sign(x) * Sign(y) * ((Abs(x) * Abs(y)) \div Unit)
Over(x, n) == Sign(x) * (Abs(x) \div n)

\* math.radians on a number of degrees [val, den]: degrees * pi / 180
radians(x) ==
    LET whole == Abs(x.val) \div x.den
        rest == Abs(x.val) % x.den
    IN  Sign(x.val) * ((whole * 17453 + (rest * 17453) \div x.den) \div 100)

\* sin on [0, pi/2]: x - x^3/3! + x^5/5! - x^7/7!, in Horner form
SinQuarter(x) ==
    LET t == Times(x, x)
        upto7 == Unit - Over(t, 42)
        upto5 == Unit - Over(Times(t, upto7), 20)
        upto3 == Unit - Over(Times(t, upto5), 6)
    IN  Times(x, upto3)

\* math.sin on [-pi, pi]: sin(-x) = -sin(x) and sin(x) = sin(pi - x)
sin(x) ==
    Sign(x) * (IF Abs(x) <= HalfPi THEN SinQuarter(Abs(x))
               ELSE SinQuarter(Pi - Abs(x)))

\* math.cos on [-pi/2, pi/2]: cos(x) = sin(pi/2 - |x|)
cos(x) == SinQuarter(HalfPi - Abs(x))

\* math.sqrt on [0, 1]: the greatest r between lo and hi with r * r <= a
RECURSIVE SqrtBetween(_, _, _)
SqrtBetween(a, lo, hi) ==
    IF lo = hi THEN lo
    ELSE LET mid == (lo + hi + 1) \div 2
         IN  IF mid * mid <= a * Unit THEN SqrtBetween(a, mid, hi)
             ELSE SqrtBetween(a, lo, mid - 1)
sqrt(a) == SqrtBetween(a, 0, Unit)

\* math.asin on [0, 1]: the greatest x between lo and hi with sin(x) <= y
RECURSIVE AsinBetween(_, _, _)
AsinBetween(y, lo, hi) ==
    IF lo = hi THEN lo
    ELSE LET mid == (lo + hi + 1) \div 2
         IN  IF SinQuarter(mid) <= y THEN AsinBetween(y, mid, hi)
             ELSE AsinBetween(y, lo, mid - 1)
asin(y) == AsinBetween(y, 0, HalfPi)

\* radius of earth in kilometers
EarthRadius == 6371

\* a faulty variant: cos(lat1) * cos(lat1) for cos(lat1) * cos(lat2)
HaversineA_one_latitude(lat1, lon1, lat2, lon2) ==
    LET dlat == lat2 - lat1
        dlon == lon2 - lon1
    IN  Times(sin(Over(dlat, 2)), sin(Over(dlat, 2)))
          + Times(Times(cos(lat1), cos(lat1)),
                  Times(sin(Over(dlon, 2)), sin(Over(dlon, 2))))

\* a = sin(dlat/2)**2 + cos(lat1) * cos(lat2) * sin(dlon/2)**2, on radians
HaversineA(lat1, lon1, lat2, lon2) ==
    LET dlat == lat2 - lat1
        dlon == lon2 - lon1
    IN  Times(sin(Over(dlat, 2)), sin(Over(dlat, 2)))
          + Times(Times(cos(lat1), cos(lat2)),
                  Times(sin(Over(dlon, 2)), sin(Over(dlon, 2))))

\* the distance in kilometers of two points given in decimal degrees; NaN
\* when a coordinate is NaN
haversine_distance(lat1, lon1, lat2, lon2) ==
    IF \E x \in {lat1, lon1, lat2, lon2} : x.tag # "num" THEN NaN
    ELSE LET a == HaversineA(radians(lat1), radians(lon1),
                             radians(lat2), radians(lon2))
             c == 2 * asin(sqrt(a))
         IN  Ratio(c * EarthRadius, Unit)

\* self.taipei_station
taipei_station ==
    [ name |-> "Taipei Main Station",
      latitude |-> Ratio(250478, 10000),
      longitude |-> Ratio(121517, 1000) ]

(***************************************************************************)
(* haversine_distance on every pair of points of a grid of latitudes and   *)
(* longitudes to which the coordinates of Taipei Main Station are added:   *)
(* from a to b, from b to a, and from a to a.                              *)
(***************************************************************************)
\* the grid has the latitudes k * 20 and the longitudes k * 40 for k from
\* -MaxGrid to MaxGrid
MaxGrid == 2

Latitudes ==
    {Num(k * 20) : k \in (0 - MaxGrid)..MaxGrid} \cup {taipei_station.latitude}
Longitudes ==
    {Num(k * 40) : k \in (0 - MaxGrid)..MaxGrid} \cup {taipei_station.longitude}

InitHaversine ==
    /\ pc = "haversine"
    /\ endpoints \in Latitudes \X Longitudes \X Latitudes \X Longitudes
    /\ distance = [forward |-> None, backward |-> None, same |-> None]
    /\ high_aqi_df = Unset /\ df_with_distance = Unset /\ analysis = Unset
    /\ IdleClassifier
    /\ IdleMonitor
    /\ IdleVisualizer
    /\ IdleEnvironment

CallHaversineDistance ==
    /\ pc = "haversine"
    /\ distance' = [distance EXCEPT !.forward =
          haversine_distance(endpoints[1], endpoints[2],
                             endpoints[3], endpoints[4])]
    /\ pc' = "haversine_swapped"
    /\ UNCHANGED <<endpoints, high_aqi_df, df_with_distance, analysis,
                   classifierVars, monitorVars, visualizerVars,
                   environmentVars>>

CallHaversineDistanceSwapped ==
    /\ pc = "haversine_swapped"
    /\ distance' = [distance EXCEPT !.backward =
          haversine_distance(endpoints[3], endpoints[4],
                             endpoints[1], endpoints[2])]
    /\ pc' = "haversine_same"
    /\ UNCHANGED <<endpoints, high_aqi_df, df_with_distance, analysis,
                   classifierVars, monitorVars, visualizerVars,
                   environmentVars>>

CallHaversineDistanceSame ==
    /\ pc = "haversine_same"
    /\ distance' = [distance EXCEPT !.same =
          haversine_distance(endpoints[1], endpoints[2],
                             endpoints[1], endpoints[2])]
    /\ pc' = "measured"
    /\ UNCHANGED <<endpoints, high_aqi_df, df_with_distance, analysis,
                   classifierVars, monitorVars, visualizerVars,
                   environmentVars>>

NextHaversine ==
    \/ CallHaversineDistance
    \/ CallHaversineDistanceSwapped
    \/ CallHaversineDistanceSame

SpecHaversine == InitHaversine /\ [][NextHaversine]_vars

\* C13: haversine_distance is zero from a point to itself, and the same
\* from a to b as from b to a.
C13_ZeroAndSymmetric ==
    pc = "measured" =>
        /\ distance.same = Num(0)
        /\ distance.forward = distance.backward

\* the distance between the grid point (20, 40) and Taipei Main Station was
\* measured both ways and is not zero
C13_Witness ==
    /\ pc = "measured"
    /\ endpoints = <<Num(20), Num(40), Ratio(250478, 10000), Ratio(121517, 1000)>>
    /\ distance.forward # Num(0)
    /\ distance.forward = distance.backward
    /\ distance.same = Num(0)

(***************************************************************************)
(* distance_analysis.py: the steps of run_analysis.  A DataFrame is the    *)
(* list of its rows, a row a record of its columns.                        *)
(***************************************************************************)
\* load_high_aqi_data: pd.read_csv of the file, or None when it raises
load_high_aqi_data(readable, stations) ==
    IF readable THEN ListOf(read_csv(stations)) ELSE NoList

\* a faulty variant: dropna(how='all'), which keeps a row with one coordinate
HasCoordinates_either(station) ==
    station.latitude.tag = "num" \/ station.longitude.tag = "num"

\* the rows df.dropna(subset=['latitude', 'longitude']) keeps
HasCoordinates(station) ==
    station.latitude.tag = "num" /\ station.longitude.tag = "num"

\* Series.round(2): to the nearest hundredth, a tie to the even hundredth
Round2(x) ==
    IF x.tag # "num" THEN x
    ELSE LET whole == x.val \div x.den
             rest == x.val % x.den
             q == (100 * rest) \div x.den
             r == (100 * rest) % x.den
             up == IF 2 * r < x.den THEN 0
                   ELSE IF 2 * r > x.den THEN 1
                   ELSE q % 2
         IN  Ratio(100 * whole + q + up, 100)

\* the row with its new column 'distance_to_taipei'
WithDistance(station) ==
    station @@
    ("distance_to_taipei" :>
        Round2(haversine_distance(station.latitude, station.longitude,
                                  taipei_station.latitude,
                                  taipei_station.longitude)))

RECURSIVE ValidStations(_)
ValidStations(rows) ==
    IF rows = <<>> THEN <<>>
    ELSE IF HasCoordinates(Head(rows))
         THEN <<WithDistance(Head(rows))>> \o ValidStations(Tail(rows))
         ELSE ValidStations(Tail(rows))

calculate_distances(frame) ==
    IF frame.is_none THEN NoList ELSE ListOf(ValidStations(frame.items))

\* the column 'distance_to_taipei', in hundredths of a kilometer
Hundredths(rows) ==
    [i \in DOMAIN rows |->
        (rows[i].distance_to_taipei.val * 100) \div rows[i].distance_to_taipei.den]

\* a number of hundredths as a number
FromHundredths(x) == IF x.tag # "num" THEN x ELSE Ratio(x.val, x.den * 100)

\* Series.idxmin() and .idxmax(): the first row with the least, the greatest
\* value; 0 stands for the ValueError they raise on an empty Series
IdxMin(values) ==
    IF values = <<>> THEN 0
    ELSE CHOOSE i \in DOMAIN values :
            /\ values[i] = Smallest(values)
            /\ \A j \in 1..(i - 1) : values[j] # Smallest(values)
IdxMax(values) ==
    IF values = <<>> THEN 0
    ELSE CHOOSE i \in DOMAIN values :
            /\ values[i] = Largest(values)
            /\ \A j \in 1..(i - 1) : values[j] # Largest(values)

\* the analysis but for 'std_distance', which no step of run_analysis
\* branches on
analyze_distance_distribution(frame) ==
    IF frame.is_none THEN ReturnedNone
    ELSE LET rows == frame.items
             values == Hundredths(rows)
         IN  IF IdxMin(values) = 0 \/ IdxMax(values) = 0 THEN Raised
             ELSE Returned(
                    [ total_stations |-> Len(rows),
                      avg_distance |-> FromHundredths(SeriesMean(values)),
                      median_distance |-> FromHundredths(SeriesMedian(values)),
                      min_distance |-> FromHundredths(SeriesMin(values)),
                      max_distance |-> FromHundredths(SeriesMax(values)),
                      nearest_station |-> rows[IdxMin(values)],
                      farthest_station |-> rows[IdxMax(values)] ])

(***************************************************************************)
(* A run of distance_analysis.py on every CSV file of up to MaxStations    *)
(* rows, each row with or without a latitude and a longitude, while the    *)
(* clock runs.                                                             *)
(***************************************************************************)
MaxStations == 3

\* the latitude and longitude of a row of the export: process_aqi_data
\* made them floats or None
CoordinateSamples == {None, Num(20), Num(24)} \X {None, Num(120)}

\* the rows of the high-AQI export, in descending order of aqi
StationList(coordinates) ==
    [i \in DOMAIN coordinates |->
        [BlankReading EXCEPT !.site_id = i, !.aqi = Num(90 - 10 * i),
                             !.latitude = coordinates[i][1],
                             !.longitude = coordinates[i][2]]]

InitAnalysis ==
    /\ pc = "load"
    /\ high_aqi_df = NoList
    /\ df_with_distance = NoList
    /\ analysis = ReturnedNone
    /\ endpoints = Unset /\ distance = Unset
    /\ IdleClassifier
    /\ IdleMonitor
    /\ IdleVisualizer
    /\ IdleEnvironment

\* the file is the export of one or more high-AQI stations; the export of
\* none has no header, and read_csv raises on it as on an unreadable file
LoadHighAqiData ==
    /\ pc = "load"
    /\ \E readable \in BOOLEAN, n \in 1..MaxStations :
          \E coordinates \in [1..n -> CoordinateSamples] :
              LET loaded == load_high_aqi_data(readable, StationList(coordinates))
              IN  /\ high_aqi_df' = loaded
                  /\ pc' = IF loaded.is_none THEN "exit" ELSE "calculate"
    /\ called' = called \cup {"load_high_aqi_data"}
    /\ UNCHANGED <<response, raw_data, processed_data, threshold,
                   high_aqi_stations, summary, files, endpoints, distance,
                   df_with_distance, analysis, classifierVars,
                   visualizerVars, environmentVars>>

CalculateDistances ==
    /\ pc = "calculate"
    /\ df_with_distance' = calculate_distances(high_aqi_df)
    /\ pc' = IF calculate_distances(high_aqi_df).is_none THEN "exit"
             ELSE "analyze"
    /\ called' = called \cup {"calculate_distances"}
    /\ UNCHANGED <<response, raw_data, processed_data, threshold,
                   high_aqi_stations, summary, files, endpoints, distance,
                   high_aqi_df, analysis, classifierVars, visualizerVars,
                   environmentVars>>

\* an exception of a step is not caught: the script ends with a traceback
AnalyzeDistanceDistribution ==
    /\ pc = "analyze"
    /\ analysis' = analyze_distance_distribution(df_with_distance)
    /\ pc' = IF analyze_distance_distribution(df_with_distance).raised
             THEN "crashed" ELSE "display"
    /\ called' = called \cup {"analyze_distance_distribution"}
    /\ UNCHANGED <<response, raw_data, processed_data, threshold,
                   high_aqi_stations, summary, files, endpoints, distance,
                   high_aqi_df, df_with_distance, classifierVars,
                   visualizerVars, environmentVars>>

\* the prints of the results format numbers and read columns of the rows
DisplayAnalysis ==
    /\ pc = "display"
    /\ pc' = IF analysis.is_none THEN "crashed" ELSE "save"
    /\ UNCHANGED <<classifierVars, monitorVars, visualizerVars, analyzerVars,
                   environmentVars>>

\* save_results: the CSV is written, then the summary is built, where
\* int(...['aqi']) raises on NaN, then the JSON is written
SaveAnalysis ==
    /\ pc = "save"
    /\ LET faults ==
              \/ PyInt(analysis.value.nearest_station.aqi).tag = "raise"
              \/ PyInt(analysis.value.farthest_station.aqi).tag = "raise"
       IN  /\ files' = files
                 \cup {Written("high_aqi_with_distances.csv", now)}
                 \cup (IF faults THEN {}
                       ELSE {Written("distance_analysis_summary.json", now)})
           /\ pc' = IF faults THEN "crashed" ELSE "visualize"
    /\ called' = called \cup {"save_results"}
    /\ UNCHANGED <<response, raw_data, processed_data, threshold,
                   high_aqi_stations, summary, classifierVars,
                   visualizerVars, analyzerVars, environmentVars>>

CreateDistanceVisualization ==
    /\ pc = "visualize"
    /\ files' = IF df_with_distance.is_none THEN files
                ELSE files \cup {Written("distance_analysis.png", now)}
    /\ pc' = "done"
    /\ called' = called \cup {"create_distance_visualization"}
    /\ UNCHANGED <<response, raw_data, processed_data, threshold,
                   high_aqi_stations, summary, classifierVars,
                   visualizerVars, analyzerVars, environmentVars>>

NextAnalysis ==
    \/ LoadHighAqiData
    \/ CalculateDistances
    \/ AnalyzeDistanceDistribution
    \/ DisplayAnalysis
    \/ SaveAnalysis
    \/ CreateDistanceVisualization
    \/ Tick

SpecAnalysis == InitAnalysis /\ [][NextAnalysis]_vars

\* as the claims state it: a row has both its latitude and its longitude
BothPresent(station) ==
    station.latitude.tag = "num" /\ station.longitude.tag = "num"

\* the file was loaded and no row of it has both coordinates
NoValidCoordinates ==
    /\ ~high_aqi_df.is_none
    /\ \A i \in DOMAIN high_aqi_df.items : ~BothPresent(high_aqi_df.items[i])

\* C12: when no loaded station has both latitude and longitude,
\* calculate_distances returns an empty table and no later step of
\* run_analysis raises.
C12_EmptyResultNotFault ==
    ("calculate_distances" \in called /\ NoValidCoordinates) =>
        /\ df_with_distance = ListOf(<<>>)
        /\ pc # "crashed"

\* the distance of a row from the point (25.0478, 121.5170)
StatedDistance(station) ==
    Round2(haversine_distance(station.latitude, station.longitude,
                              Ratio(250478, 10000), Ratio(121517, 1000)))

\* C14: calculate_distances returns exactly the rows that have both a
\* latitude and a longitude, in input order, each with its distance from
\* (25.0478, 121.5170) in distance_to_taipei; the statistics count these
\* rows only.
C14_ExactlyTheRowsWithCoordinates ==
    "calculate_distances" \in called =>
        LET kept == SelectSeq(high_aqi_df.items, BothPresent)
            made == df_with_distance.items
        IN  /\ ~df_with_distance.is_none
            /\ Len(made) = Len(kept)
            /\ \A i \in DOMAIN kept :
                  /\ \A column \in DOMAIN kept[i] :
                        made[i][column] = kept[i][column]
                  /\ made[i].distance_to_taipei = StatedDistance(kept[i])
            /\ ("analyze_distance_distribution" \in called /\ ~analysis.raised) =>
                  /\ analysis.value.total_stations = Len(kept)
                  /\ BothPresent(analysis.value.nearest_station)
                  /\ BothPresent(analysis.value.farthest_station)

\* of three rows the second has no longitude: the first and the third were
\* given a distance and analysed, and the run has ended
C14_Witness ==
    /\ pc = "done"
    /\ Len(high_aqi_df.items) = 3
    /\ high_aqi_df.items[2].longitude = NaN
    /\ Len(df_with_distance.items) = 2
    /\ df_with_distance.items[1].site_id = 1
    /\ df_with_distance.items[2].site_id = 3
    /\ df_with_distance.items[1].distance_to_taipei # Num(0)
    /\ analysis.value.total_stations = 2

(***************************************************************************)
(* aqi_map_visualization.py: load_aqi_data, create_popup_content and       *)
(* create_aqi_map.                                                         *)
(***************************************************************************)
\* pd.read_csv of the file, or None when it raises
load_aqi_data(readable, stations) ==
    IF readable THEN ListOf(read_csv(stations)) ELSE NoList

\* what the popup shows of the station's AQI: its value, its category and
\* the colour of the value
create_popup_content(station) ==
    [ aqi_value |-> station.aqi,
      category |-> get_aqi_category(station.aqi),
      color |-> get_aqi_color(station.aqi) ]

\* the CircleMarker of a station
Marker(station) ==
    [ site_id |-> station.site_id,
      location |-> <<station.latitude, station.longitude>>,
      fillColor |-> get_aqi_color(station.aqi),
      popup |-> create_popup_content(station) ]

\* for idx, station in valid_stations.iterrows()
RECURSIVE Markers(_)
Markers(rows) ==
    IF rows = <<>> THEN <<>>
    ELSE IF HasCoordinates(Head(rows))
         THEN <<Marker(Head(rows))>> \o Markers(Tail(rows))
         ELSE Markers(Tail(rows))

\* with no valid station the centre of the map is [NaN, NaN], which
\* folium.Map rejects with ValueError
create_aqi_map(frame) ==
    IF frame.is_none THEN ReturnedNone
    ELSE IF Markers(frame.items) = <<>> THEN Raised
    ELSE Returned(Markers(frame.items))

(***************************************************************************)
(* The map of every CSV file of up to MaxReadings rows: a row has an AQI   *)
(* in a band, out of every band or none, and has coordinates or not.       *)
(***************************************************************************)
MapAqiSamples == {None, Num(42), Num(501)}
MapCoordinateSamples == {<<None, None>>, <<Num(24), Num(120)>>}

\* the rows of the full export
MapStationList(aqis, coordinates) ==
    [i \in DOMAIN aqis |->
        [BlankReading EXCEPT !.site_id = i, !.aqi = aqis[i],
                             !.latitude = coordinates[i][1],
                             !.longitude = coordinates[i][2]]]

InitMap ==
    /\ pc = "load_aqi_data"
    /\ df = NoList
    /\ map_summary = Unset
    /\ markers = ReturnedNone
    /\ IdleClassifier
    /\ IdleMonitor
    /\ IdleAnalyzer
    /\ IdleEnvironment

\* the file is the export of one or more readings
LoadAqiData ==
    /\ pc = "load_aqi_data"
    /\ \E readable \in BOOLEAN, n \in 1..MaxReadings :
          \E aqis \in [1..n -> MapAqiSamples],
             coordinates \in [1..n -> MapCoordinateSamples] :
              LET loaded == load_aqi_data(readable,
                                          MapStationList(aqis, coordinates))
              IN  /\ df' = loaded
                  /\ pc' = IF loaded.is_none THEN "exit" ELSE "create_aqi_map"
    /\ UNCHANGED <<map_summary, markers, classifierVars, monitorVars,
                   analyzerVars, environmentVars>>

CreateAqiMap ==
    /\ pc = "create_aqi_map"
    /\ markers' = create_aqi_map(df)
    /\ pc' = IF create_aqi_map(df).raised THEN "crashed" ELSE "mapped"
    /\ UNCHANGED <<df, map_summary, classifierVars, monitorVars,
                   analyzerVars, environmentVars>>

NextMap == LoadAqiData \/ CreateAqiMap

SpecMap == InitMap /\ [][NextMap]_vars

\* C15: a station whose AQI cell is empty in the CSV is given the
\* missing-data label and colour on the map, in its popup and its marker,
\* not the out-of-range label.
C15_MissingAqiLabelled ==
    pc = "mapped" =>
        \A i \in DOMAIN markers.value :
            markers.value[i].popup.aqi_value.tag # "num" =>
                /\ markers.value[i].popup.category = "no data"
                /\ markers.value[i].popup.color = "#808080"
                /\ markers.value[i].fillColor = "#808080"

\* the median of a non-empty sequence of integers as the claims state it:
\* the middle value, or for an even count the mean of the two middle values
StatedMedian(values) ==
    LET sorted == Ascending(values)
        lower == sorted[(Len(values) + 1) \div 2]
        upper == sorted[Len(values) \div 2 + 1]
    IN  Ratio(lower + upper, 2)

\* C16: for a non-empty collection of integer AQI values, the median_aqi of
\* create_statistics_summary is the median of the collection, and lies
\* between min_aqi and max_aqi.
C16_MedianReported ==
    (pc = "summarised" /\ ~map_summary.raised /\ ValidAqi(df.items) # <<>>) =>
        /\ map_summary.value.statistics.median_aqi
              = StatedMedian(ValidAqi(df.items))
        /\ NumLE(map_summary.value.statistics.min_aqi,
                 map_summary.value.statistics.median_aqi)
        /\ NumLE(map_summary.value.statistics.median_aqi,
                 map_summary.value.statistics.max_aqi)

\* the fetch succeeded and every reading made of it has a null aqi
AllAqiNull ==
    /\ response = "ok"
    /\ ~Not(processed_data)
    /\ \A i \in DOMAIN processed_data.items :
          processed_data.items[i].aqi = None

\* the names of the files written so far
FileNames == {file.name : file \in files}

\* C17: when the fetch succeeds and every reading has a null AQI, the run
\* goes past the summary without a fault and save_results writes the full
\* export, the filtered export and the summary.
C17_AllNullRunSaves ==
    (AllAqiNull /\ "generate_summary" \in called /\ pc \notin {"display", "save"})
      => /\ pc \in {"visualize", "done"}
         /\ "save_results" \in called
         /\ {"all_aqi_data.csv", "high_aqi_stations.csv", "aqi_summary.json"}
               \subseteq FileNames

\* C18: the files written by one run of a script carry the same timestamp
\* in their names.
C18_OneTimestamp ==
    \A file \in files, other \in files : file.stamp = other.stamp
====
